---- MODULE Spec2Model ----
(***************************************************************************)
(* Model of the indicator computation and price-projection pipeline of     *)
(* the cryptocurrency analysis application (crypto_analyzer.py).           *)
(*                                                                         *)
(* Floating point values are modelled exactly as rationals n/d (d > 0),    *)
(* with the two IEEE special values the code can produce: NaN (pandas'     *)
(* "undefined") and +infinity (x/0 for x > 0).  The exponential moving     *)
(* averages, whose exact denominators grow as (span+1)^row, are kept in    *)
(* fixed point with FixedScale units per 1, rounded down at every step.    *)
(***************************************************************************)
EXTENDS Integers, Sequences, FiniteSets, TLC

VARIABLES csv, data, call, ret, local, app, gui

vars == <<csv, data, call, ret, local, app, gui>>

-----------------------------------------------------------------------------
(* Numbers *)

NaN == [t |-> "nan", n |-> 0, d |-> 1]
PInf == [t |-> "inf", n |-> 1, d |-> 1]
NInf == [t |-> "ninf", n |-> 0 - 1, d |-> 1]
\* a / b with the sign carried by the numerator
Rat(a, b) == IF b < 0 THEN [t |-> "num", n |-> 0 - a, d |-> 0 - b]
                      ELSE [t |-> "num", n |-> a, d |-> b]
Num(a) == Rat(a, 1)

IsNaN(x) == x.t = "nan"
IsNum(x) == x.t = "num"
Defined(x) == x.t # "nan"

\* x = y as real numbers (never true of NaN, as in IEEE arithmetic)
NumEq(x, y) ==
    \/ x.t = "inf" /\ y.t = "inf"
    \/ x.t = "ninf" /\ y.t = "ninf"
    \/ x.t = "num" /\ y.t = "num" /\ x.n * y.d = y.n * x.d

\* x <= y as real numbers (never true of NaN)
NumLe(x, y) ==
    \/ x.t = "ninf" /\ y.t # "nan"
    \/ y.t = "inf" /\ x.t # "nan"
    \/ x.t = "num" /\ y.t = "num" /\ x.n * y.d <= y.n * x.d

Neg(x) == CASE x.t = "nan" -> NaN
            [] x.t = "inf" -> NInf
            [] x.t = "ninf" -> PInf
            [] OTHER -> Rat(0 - x.n, x.d)

NumAdd(x, y) ==
    IF IsNaN(x) \/ IsNaN(y) THEN NaN
    ELSE IF IsNum(x) /\ IsNum(y) THEN Rat(x.n * y.d + y.n * x.d, x.d * y.d)
    ELSE IF IsNum(x) THEN y
    ELSE IF IsNum(y) \/ x.t = y.t THEN x
    ELSE NaN   \* inf + -inf

NumSub(x, y) == NumAdd(x, Neg(y))

\* x / y with the IEEE results of a zero or infinite divisor: 0/0 and
\* inf/inf are NaN, x/0 is an infinity of the sign of x, x/inf is 0.
NumDiv(x, y) ==
    IF IsNaN(x) \/ IsNaN(y) THEN NaN
    ELSE IF ~IsNum(y) THEN (IF IsNum(x) THEN Num(0) ELSE NaN)
    ELSE IF ~IsNum(x) THEN (IF y.n < 0 THEN Neg(x) ELSE x)
    ELSE IF y.n = 0 THEN (IF x.n = 0 THEN NaN ELSE IF x.n > 0 THEN PInf ELSE NInf)
    ELSE Rat(x.n * y.d, x.d * y.n)

-----------------------------------------------------------------------------
(* Program constants *)

SMAShort == 20        \* rolling(window=20)
SMAMid == 50          \* rolling(window=50)
SMALong == 200        \* rolling(window=200)
RSIWindow == 14       \* rolling(window=14)
BBWindow == 20        \* rolling(window=20) of the Bollinger bands
BBWidth == 2          \* bb_std * 2
SpanFast == 12        \* ewm(span=12)
SpanSlow == 26        \* ewm(span=26)
SpanSignal == 9       \* ewm(span=9)
Lookback == 60        \* lookback=60, iloc[-60:]
MinRows == 60         \* len(coin_data) < 60
CloseIdx == 4         \* values[i, 3], new_row[3] (1-based here)
NFeatures == 7        \* len(features)
SMA20Idx == 6         \* new_row[5] (1-based here)
SMA50Idx == 7         \* new_row[6] (1-based here)
DefaultHorizon == 730 \* days_ahead: int = 730

(* Bounds of the model *)

MaxExtra == 1         \* rows beyond each threshold length
MaxHorizon == 3       \* largest days_ahead requested
OtherRows == 3        \* rows of the second instrument in the stored file
BasePrice == 5        \* lowest close of the generated series
BreakAt == 16         \* row at which a generated series changes regime
FixedScale == 1000    \* fixed-point units per 1 of the EMA values
ScenarioRows == 25    \* rows of the short rising series
MaxDay == 3           \* last day the exchange has candles for
Today == 4            \* the day of the run
DefaultSpan == 3      \* days fetched back without a start date (365, scaled)
MaxFetches == 1       \* fetch operations in one run
LongHorizon == 62     \* days_ahead of the long projection runs

-----------------------------------------------------------------------------
(* The stored series.  A row is one OHLCV record of one instrument; dates  *)
(* are day numbers.                                                        *)

\* A symbol as the list of its '/'-separated parts: "BTC/USDT" is
\* <<"BTC", "USDT">>, "BTC" is <<"BTC">>.
Symbols == {<<"BTC">>, <<"BTC", "USDT">>, <<"DOGE", "USDT">>}

Patterns == {"flat", "up", "down", "alt", "step", "vee", "saw"}

ShortLens == {0, 1} \cup {w + e : w \in {RSIWindow, SMAShort, SMAMid},
                                   e \in (0 - 2)..MaxExtra}
\* Lengths around the one that leaves MinRows rows with both averages defined
PredictLens == {MinRows + SMAMid + e : e \in (0 - 2)..MaxExtra}
LongLens == {SMALong + e : e \in (0 - 1)..MaxExtra}
LongPatterns == {"saw", "vee"}

MaxLen == SMALong + MaxExtra

\* A row-indexed function as a sequence value (a materialised column)
AsSeq(f) == f \o <<>>

Max2(a, b) == IF a >= b THEN a ELSE b
Min2(a, b) == IF a <= b THEN a ELSE b

\* close of row i (1-based) of a generated series
GenClose(pat, i) ==
    CASE pat = "flat" -> BasePrice
      [] pat = "up"   -> BasePrice + i
      [] pat = "down" -> BasePrice + MaxLen - i
      [] pat = "alt"  -> BasePrice + (i % 2)
      [] pat = "step" -> IF i <= BreakAt THEN BasePrice ELSE BasePrice + (i - BreakAt)
      [] pat = "vee"  -> IF i <= BreakAt THEN BasePrice + BreakAt - i
                                          ELSE BasePrice + i - BreakAt
      [] pat = "saw"  -> BasePrice + (i % 3)

GenRow(coin, pat, i) ==
    LET c == GenClose(pat, i)
        o == IF i = 1 THEN c ELSE GenClose(pat, i - 1)
    IN  [date |-> i, coin |-> coin, open |-> o, high |-> Max2(o, c) + 1,
         low |-> Min2(o, c) - 1, close |-> c, volume |-> 10 * i,
         exchange |-> "binance"]

GenSeries(coin, pat, n) == AsSeq([i \in 1..n |-> GenRow(coin, pat, i)])

\* The file as fetch_all_data writes it: one block of rows per instrument.
GenCsv(pat, n, m) == GenSeries("BTC", pat, n) \o GenSeries("ETH", "down", m)

\* The stored files of the projection runs: lengths around the guard of
\* predict_future_prices and lengths that leave no or few clean rows.
Files ==
    {GenCsv(pat, n, m) : pat \in LongPatterns,
                         n \in {0, 1} \cup {SMAMid + e : e \in (0 - 1)..MaxExtra},
                         m \in {0, OtherRows}}
        \cup {GenCsv(pat, n, OtherRows) : pat \in LongPatterns, n \in PredictLens}
        \cup {GenCsv("up", ScenarioRows, 0)}

\* The stored files of the indicator runs: every pattern at the lengths
\* around the short windows, two patterns around the longest window.
IndicatorFiles ==
    {GenCsv(pat, n, m) : pat \in Patterns, n \in ShortLens, m \in {0, OtherRows}}
        \cup {GenCsv(pat, n, OtherRows) : pat \in LongPatterns, n \in LongLens}

-----------------------------------------------------------------------------
(* Data frame helpers (pandas) *)

\* df[df['coin'] == base_coin]
FilterCoin(df, base) == SelectSeq(df, LAMBDA r : r.coin = base)

\* Stable merge of two date-sorted tables (rows of a before rows of b of
\* the same date).  The middle row of a splits both tables.
RECURSIVE Merge(_, _)
Merge(a, b) ==
    IF Len(a) = 0 THEN b
    ELSE IF Len(b) = 0 THEN a
    ELSE IF a[Len(a)].date <= b[1].date THEN a \o b
    ELSE LET m == (Len(a) + 1) \div 2
             k == Cardinality({j \in 1..Len(b) : b[j].date < a[m].date})
         IN  Merge(SubSeq(a, 1, m - 1), SubSeq(b, 1, k)) \o <<a[m]>>
                 \o Merge(SubSeq(a, m + 1, Len(a)), SubSeq(b, k + 1, Len(b)))

RECURSIVE SortRange(_, _, _)
SortRange(df, lo, hi) ==
    IF lo >= hi THEN SubSeq(df, lo, hi)
    ELSE LET mid == (lo + hi) \div 2
         IN  Merge(SortRange(df, lo, mid), SortRange(df, mid + 1, hi))

\* df.sort_values('date'): ascending by date, rows of equal date in file order
SortByDate(df) == SortRange(df, 1, Len(df))

\* df['close']
CloseCol(df) == AsSeq([i \in 1..Len(df) |-> df[i].close])

\* Running window sums as pandas keeps them: add the entering value, remove
\* the leaving one.  RollSumRange gives the sums of rows lo..hi from the sum
\* run of the window ending at row lo - 1 (the range is halved, so that the
\* evaluation nests only to the logarithm of the length).
RECURSIVE RollSumRange(_, _, _, _, _)
RollSumRange(x, w, lo, hi, run) ==
    IF lo > hi THEN <<>>
    ELSE IF lo = hi
    THEN <<run + x[lo] - (IF lo > w THEN x[lo - w] ELSE 0)>>
    ELSE LET mid == (lo + hi) \div 2
             left == RollSumRange(x, w, lo, mid, run)
         IN  left \o RollSumRange(x, w, mid + 1, hi, left[Len(left)])

\* acc[i] is the sum of x over rows max(1, i-w+1)..i
RollSum(x, w) == RollSumRange(x, w, 1, Len(x), 0)

RollingMeanWide(x, w) ==
    LET sums == RollSum(x, w + 1)
    IN  AsSeq([i \in 1..Len(x) |-> IF i < w THEN NaN ELSE Rat(sums[i], w)])

\* x.rolling(window=w).mean(): undefined until w observations are in the window
RollingMean(x, w) ==
    LET sums == RollSum(x, w)
    IN  AsSeq([i \in 1..Len(x) |-> IF i < w THEN NaN ELSE Rat(sums[i], w)])

\* x.rolling(window=w).std(): the sample variance (ddof = 1) of the window,
\* whose square root is the deviation; kept as the variance vn/vd.
RollingVar(x, w) ==
    LET sums == RollSum(x, w)
        squares == RollSum(AsSeq([i \in 1..Len(x) |-> x[i] * x[i]]), w)
    IN  AsSeq([i \in 1..Len(x) |->
                IF i < w THEN NaN
                ELSE Rat(w * squares[i] - sums[i] * sums[i], w * (w - 1))])

\* mid + k * sqrt(var), kept symbolically: [n/d] + k * sqrt(vn/vd)
Band(mid, k, var) ==
    IF IsNaN(mid) \/ IsNaN(var) THEN NaN
    ELSE [t |-> "num", n |-> mid.n, d |-> mid.d, k |-> k, vn |-> var.n, vd |-> var.d]

\* x.diff(): undefined on the first row
Diff(x) == AsSeq([i \in 1..Len(x) |-> IF i = 1 THEN NaN ELSE Num(x[i] - x[i - 1])])

\* delta.where(delta > 0, 0): an undefined delta compares false and becomes 0
Gains(delta) ==
    AsSeq([i \in 1..Len(delta) |->
            IF IsNum(delta[i]) /\ delta[i].n > 0 THEN delta[i].n ELSE 0])

LossesSigned(delta) ==
    AsSeq([i \in 1..Len(delta) |->
            IF IsNum(delta[i]) /\ delta[i].n < 0 THEN delta[i].n ELSE 0])

\* -delta.where(delta < 0, 0)
Losses(delta) ==
    AsSeq([i \in 1..Len(delta) |->
            IF IsNum(delta[i]) /\ delta[i].n < 0 THEN 0 - delta[i].n ELSE 0])

\* 100 - (100 / (1 + rs)) with rs = gain / loss
RSIValue(gain, loss) ==
    LET rs == NumDiv(gain, loss)
    IN  NumSub(Num(100), NumDiv(Num(100), NumAdd(Num(1), rs)))

EmaStepWrongAlpha(prev, x, span) == (prev * (span - 1) + x) \div span

\* One step of ewm(span, adjust=False).mean() in fixed point:
\* prev * (1 - a) + x * a with a = 2 / (span + 1)
EmaStep(prev, x, span) == (prev * (span - 1) + 2 * x) \div (span + 1)

\* The recursion over rows lo..hi from the value prev of row lo - 1; the
\* first row is the first observation.
RECURSIVE EmaRange(_, _, _, _, _)
EmaRange(x, span, lo, hi, prev) ==
    IF lo > hi THEN <<>>
    ELSE IF lo = hi
    THEN <<IF lo = 1 THEN x[1] ELSE EmaStep(prev, x[lo], span)>>
    ELSE LET mid == (lo + hi) \div 2
             left == EmaRange(x, span, lo, mid, prev)
         IN  left \o EmaRange(x, span, mid + 1, hi, left[Len(left)])

\* x.ewm(span=span, adjust=False).mean() of a fixed-point series
Ewm(x, span) == EmaRange(x, span, 1, Len(x), 0)

ToFixed(x) == AsSeq([i \in 1..Len(x) |-> x[i] * FixedScale])

-----------------------------------------------------------------------------
(* CryptoAnalyzer *)

\* coin.split('/')[0] if '/' in coin else coin
BaseCoin(coin) == coin[1]

\* load_data: an empty file is kept as read, anything else is sorted by date
LoadData(file) == IF Len(file) = 0 THEN file ELSE SortByDate(file)

CoinDataUnfiltered(df, coin) == df

\* self.data[self.data['coin'] == base_coin].copy()
CoinData(df, coin) == FilterCoin(df, BaseCoin(coin))

SelfDataAliased(df, coin_data) == coin_data

\* self.data after a call that worked on coin_data: the filter and .copy()
\* give the call its own table, so the columns it adds stay off self.data
SelfData(df, coin_data) == df

Empty == [kind |-> "empty", rows |-> <<>>]
Frame(rows) == [kind |-> "frame", rows |-> rows]
RaisedSwallowed == [kind |-> "empty", rows |-> <<>>]

\* The handlers' "raise": the exception reaches the caller
Raised == [kind |-> "raise", rows |-> <<>>]
NoResult == [kind |-> "none", rows |-> <<>>]
Idle == [pc |-> "idle"]

AllCoins == "ALL COINS"

\* The window after CryptoGUI.__init__: both buttons enabled, no worker
\* thread, nothing scheduled on the main loop, current_coin not yet set
GuiIdle ==
    [selected_coin |-> AllCoins, current_coin |-> "None",
     button |-> [fetch |-> "normal", analyze |-> "normal"],
     workers |-> [fetch |-> <<>>, analyze |-> <<>>],
     after |-> <<>>,
     status_label |-> "ready",
     operated |-> [fetch |-> [clicked |-> "None", read |-> "None"],
                   analyze |-> [clicked |-> "None", read |-> "None"]]]

\* The application between two operations, with the coins its fetcher is
\* configured with
AppIdle(coins) ==
    [pc |-> "idle", coins |-> coins, op |-> "none", outcome |-> "none",
     i |-> 0, visited |-> <<>>, faults |-> <<>>, fetches |-> 0,
     current_coin |-> "", selected_coin |-> "", fetched |-> <<>>,
     stages |-> <<>>,
     analysed |-> <<>>, fault |-> "none"]

\* The application as an operation starts: what the last operation kept in
\* its local variables is gone, the attributes stay
Entering(op) ==
    [app EXCEPT !.op = op, !.outcome = "none", !.i = 0, !.visited = <<>>,
                !.faults = <<>>, !.fetched = <<>>, !.stages = <<>>,
                !.analysed = <<>>, !.fault = "none"]

\* The columns calculate_technical_indicators derives from the sorted rows
\* of one instrument, with the two EMA series it keeps in exp1 and exp2.
Indicators(cd) ==
    LET close == CloseCol(cd)
        delta == Diff(close)
        gain == RollingMean(Gains(delta), RSIWindow)
        loss == RollingMean(Losses(delta), RSIWindow)
        exp1 == Ewm(ToFixed(close), SpanFast)
        exp2 == Ewm(ToFixed(close), SpanSlow)
        macd == AsSeq([i \in 1..Len(cd) |-> exp1[i] - exp2[i]])
    IN  [SMA_20 |-> RollingMean(close, SMAShort),
         SMA_50 |-> RollingMean(close, SMAMid),
         SMA_200 |-> RollingMean(close, SMALong),
         RSI |-> AsSeq([i \in 1..Len(cd) |-> RSIValue(gain[i], loss[i])]),
         gain |-> gain, loss |-> loss,
         exp1 |-> exp1, exp2 |-> exp2,
         MACD |-> macd,
         Signal_Line |-> Ewm(macd, SpanSignal),
         BB_middle |-> RollingMean(close, BBWindow),
         bb_std |-> RollingVar(close, BBWindow)]

\* coin_data with the derived columns added
Augmented(cd, ind) ==
    AsSeq([i \in 1..Len(cd) |->
        [date |-> cd[i].date, coin |-> cd[i].coin, open |-> cd[i].open,
         high |-> cd[i].high, low |-> cd[i].low, close |-> cd[i].close,
         volume |-> cd[i].volume, exchange |-> cd[i].exchange,
         SMA_20 |-> ind.SMA_20[i], SMA_50 |-> ind.SMA_50[i],
         SMA_200 |-> ind.SMA_200[i], RSI |-> ind.RSI[i],
         MACD |-> Rat(ind.MACD[i], FixedScale),
         Signal_Line |-> Rat(ind.Signal_Line[i], FixedScale),
         BB_middle |-> ind.BB_middle[i],
         BB_upper |-> Band(ind.BB_middle[i], BBWidth, ind.bb_std[i]),
         BB_lower |-> Band(ind.BB_middle[i], 0 - BBWidth, ind.bb_std[i])]])

CalculateTechnicalIndicators(coin) ==
    /\ local.pc = "idle"
    /\ call' = [op |-> "calculate_technical_indicators", coin |-> coin, days_ahead |-> 0]
    /\ LET coin_data == CoinData(data, coin)
       IN  IF Len(coin_data) = 0
           THEN /\ ret' = Empty
                /\ local' = Idle
                /\ data' = data
           ELSE LET sorted == SortByDate(coin_data)
                    ind == Indicators(sorted)
                    augmented == Augmented(sorted, ind)
                IN  /\ ret' = Frame(augmented)
                    /\ local' = [pc |-> "idle", gain |-> ind.gain, loss |-> ind.loss,
                                 exp1 |-> ind.exp1, exp2 |-> ind.exp2]
                    /\ data' = SelfData(data, augmented)
    /\ UNCHANGED <<csv, app, gui>>

-----------------------------------------------------------------------------
(* prepare_prediction_data *)

\* values[lo : lo + lookback] reshaped to one row: the rows one after the
\* other, each with its columns in order (numpy's C order)
Flatten(values, lo, lookback, width) ==
    AsSeq([k \in 1..(lookback * width) |->
            values[lo + ((k - 1) \div width)][((k - 1) % width) + 1]])

\* The loop of prepare_prediction_data: sample j (1-based) is built at
\* i = lookback + j - 1 (0-based) from rows i-lookback .. i-1, its label is
\* values[i, 3].
Windows(values, lookback) ==
    LET count == Max2(Len(values) - lookback, 0)
    IN  [X |-> AsSeq([j \in 1..count |-> Flatten(values, j, lookback, Len(values[1]))]),
         y |-> AsSeq([j \in 1..count |-> values[lookback + j][CloseIdx]])]

\* np.array(X).shape[1] exists only when a sample was appended: with no
\* sample X has the shape (0,) and X.shape[1] raises IndexError, which the
\* handler logs and raises again.
PrepareRaises(values, lookback) == Len(values) <= lookback

PreparePredictionData(values, lookback) ==
    IF PrepareRaises(values, lookback)
    THEN [kind |-> "raise", X |-> <<>>, y |-> <<>>]
    ELSE LET w == Windows(values, lookback)
         IN  [kind |-> "ok", X |-> w.X, y |-> w.y]

-----------------------------------------------------------------------------
(* The regressor.  RandomForestRegressor(n_estimators=100, random_state=42) *)
(* is a library: with its seed fixed, fit and predict are a function of    *)
(* the training set and the query.  It is modelled as a piecewise-constant *)
(* function of the query's most recent close whose values are training     *)
(* labels (the label of the sample nearest in that feature).               *)

Abs(a) == IF a < 0 THEN 0 - a ELSE a

\* A regressor whose seed is not fixed: what it answers depends on what an
\* earlier invocation left behind
ModelPredictUnseeded(model, x) ==
    IF ret.kind = "frame" THEN model.y[1] ELSE model.y[Len(model.y)]

Fit(X, y) == [X |-> X, y |-> y]

LastClose(x) == x[Len(x) - NFeatures + CloseIdx]

ModelPredict(model, x) ==
    LET dist == AsSeq([j \in 1..Len(model.X) |->
                        Abs(LastClose(model.X[j]).n - LastClose(x).n)])
        best == CHOOSE j \in 1..Len(dist) :
                    \A k \in 1..Len(dist) :
                        dist[j] < dist[k] \/ (dist[j] = dist[k] /\ j <= k)
    IN  model.y[best]

-----------------------------------------------------------------------------
(* predict_future_prices *)

\* coin_data[features] of the rows that keep no undefined value
\* (coin_data.dropna()), features = open, high, low, close, volume,
\* SMA_20, SMA_50
WithAverages(cd) ==
    LET close == CloseCol(cd)
        sma20 == RollingMean(close, SMAShort)
        sma50 == RollingMean(close, SMAMid)
    IN  AsSeq([i \in 1..Len(cd) |->
            [date |-> cd[i].date, coin |-> cd[i].coin,
             open |-> cd[i].open, high |-> cd[i].high,
             low |-> cd[i].low, close |-> cd[i].close, volume |-> cd[i].volume,
             exchange |-> cd[i].exchange,
             SMA_20 |-> sma20[i], SMA_50 |-> sma50[i]]])

DropNa(rows) == SelectSeq(rows, LAMBDA r : Defined(r.SMA_20) /\ Defined(r.SMA_50))

FeatureRow(r) ==
    <<Num(r.open), Num(r.high), Num(r.low), Num(r.close), Num(r.volume),
      r.SMA_20, r.SMA_50>>

FeatureData(rows) == AsSeq([i \in 1..Len(rows) |-> FeatureRow(rows[i])])

FutureDatesFromStart(start, days_ahead) ==
    AsSeq([k \in 1..days_ahead |-> start + k - 1])

\* pd.date_range(start, periods=days_ahead + 1, freq='D')[1:]
FutureDates(start, days_ahead) == AsSeq([k \in 1..days_ahead |-> start + k])

\* x[lo] + ... + x[hi] of numbers of denominator 1 (predicted closes)
RECURSIVE SumRange(_, _, _)
SumRange(x, lo, hi) ==
    IF lo > hi THEN 0
    ELSE IF lo = hi THEN x[lo].n
    ELSE LET mid == (lo + hi) \div 2
         IN  SumRange(x, lo, mid) + SumRange(x, mid + 1, hi)

\* np.mean(predictions[-w:]) if len(predictions) >= w else pred
FedBackAverage(predictions, w, pred) ==
    IF Len(predictions) >= w
    THEN Rat(SumRange(predictions, Len(predictions) - w + 1, Len(predictions)), w)
    ELSE pred

\* new_row = np.zeros(len(features)) with the close and the two averages set
NewRowCarry(predictions, pred) ==
    <<pred, pred, pred, pred, Num(0),
      FedBackAverage(predictions, SMAShort, pred),
      FedBackAverage(predictions, SMAMid, pred)>>

\* The features np.zeros leaves at 0 in a synthetic row: open, high, low and
\* volume (1-based here)
UnsetFeatures == {1, 2, 3, 5}

NewRow(predictions, pred) ==
    <<Num(0), Num(0), Num(0), pred, Num(0),
      FedBackAverage(predictions, SMAShort, pred),
      FedBackAverage(predictions, SMAMid, pred)>>

ShiftDropNewest(current_sequence, new_row) ==
    SubSeq(current_sequence, 1, Len(current_sequence) - NFeatures) \o new_row

\* np.vstack([current_sequence[1:], new_row]) on the reshaped window
Shift(current_sequence, new_row) ==
    SubSeq(current_sequence, NFeatures + 1, Len(current_sequence)) \o new_row

PrependPrediction(predictions, pred) == <<pred>> \o predictions

\* predictions.append(pred)
AppendPrediction(predictions, pred) == Append(predictions, pred)

InsufficientOffByOne(clean) == Len(clean) < MinRows - 1

\* if len(coin_data) < 60
Insufficient(clean) == Len(clean) < MinRows

LoopDoneLate(step, days_ahead) == step > days_ahead

\* The loop "for _ in range(1, days_ahead)" has made all its passes
LoopDone(step, days_ahead) == step >= days_ahead

Returned(kind, prepared, fitted, clean) ==
    [pc |-> "idle", kind |-> kind, prepared |-> prepared, fitted |-> fitted,
     clean |-> clean]

\* Lines 178-235: up to and including the initial prediction.
PredictBegin(coin, days_ahead) ==
    /\ local.pc = "idle"
    /\ call' = [op |-> "predict_future_prices", coin |-> coin, days_ahead |-> days_ahead]
    /\ LET coin_data == CoinData(data, coin)
       IN  IF Len(coin_data) = 0
           THEN /\ ret' = Empty
                /\ local' = Returned("no data", FALSE, FALSE, 0)
                /\ data' = data
           ELSE
           LET clean == DropNa(WithAverages(SortByDate(coin_data)))
           IN  /\ data' = SelfData(data, clean)
               /\ IF Insufficient(clean)
                  THEN /\ ret' = Empty
                       /\ local' = Returned("insufficient", FALSE, FALSE, Len(clean))
                  ELSE
                  LET feature_data == FeatureData(clean)
                      prep == PreparePredictionData(feature_data, Lookback)
                  IN  IF prep.kind = "raise"
                      THEN /\ ret' = Raised
                           /\ local' = Returned("prepare failed", TRUE, FALSE, Len(clean))
                      ELSE IF Len(prep.X) = 0
                      THEN /\ ret' = Empty
                           /\ local' = Returned("no valid data", TRUE, FALSE, Len(clean))
                      ELSE
                      LET model == Fit(prep.X, prep.y)
                          last_sequence == Flatten(feature_data, Len(feature_data) - Lookback + 1,
                                                   Lookback, NFeatures)
                          pred == ModelPredict(model, last_sequence)
                      IN  /\ ret' = NoResult
                          /\ local' = [pc |-> "loop", kind |-> "forecast",
                                       prepared |-> TRUE, fitted |-> TRUE,
                                       clean |-> Len(clean),
                                       feature_data |-> feature_data,
                                       model |-> model,
                                       future_dates |->
                                           FutureDates(clean[Len(clean)].date, days_ahead),
                                       predictions |-> <<pred>>,
                                       current_sequence |-> last_sequence,
                                       pred |-> pred,
                                       step |-> 1]
    /\ UNCHANGED <<csv, app, gui>>

\* Lines 238-252: one pass of "for _ in range(1, days_ahead)".
PredictStep ==
    /\ local.pc = "loop"
    /\ ~LoopDone(local.step, call.days_ahead)
    /\ LET new_row == NewRow(local.predictions, local.pred)
           current_sequence == Shift(local.current_sequence, new_row)
           pred == ModelPredict(local.model, current_sequence)
       IN  local' = [local EXCEPT !.current_sequence = current_sequence,
                                  !.pred = pred,
                                  !.predictions = AppendPrediction(@, pred),
                                  !.step = @ + 1]
    /\ UNCHANGED <<csv, data, call, ret, app, gui>>

\* Lines 254-265: the result frame.  pd.DataFrame raises ValueError when its
\* columns differ in length; the handler logs and raises again.
PredictReturn ==
    /\ local.pc = "loop"
    /\ LoopDone(local.step, call.days_ahead)
    /\ IF Len(local.future_dates) # Len(local.predictions)
       THEN ret' = Raised
       ELSE ret' = Frame(AsSeq([k \in 1..Len(local.predictions) |->
                            [date |-> local.future_dates[k],
                             predicted_price |-> local.predictions[k]]]))
    /\ local' = [local EXCEPT !.pc = "idle"]
    /\ UNCHANGED <<csv, data, call, app, gui>>

-----------------------------------------------------------------------------
(* plot_analysis *)

\* The predictions made for a horizon: the initial one and one per pass of
\* "for _ in range(1, days_ahead)"
PredictionCount(days_ahead) == Max2(days_ahead, 1)

\* What kind of result predict_future_prices hands back
ForecastKind(df, coin, days_ahead) ==
    LET coin_data == CoinData(df, coin)
        clean == DropNa(WithAverages(SortByDate(coin_data)))
    IN  IF Len(coin_data) = 0 \/ Insufficient(clean) THEN "empty"
        ELSE IF PrepareRaises(FeatureData(clean), Lookback) THEN "raise"
        ELSE IF Len(FutureDates(0, days_ahead)) # PredictionCount(days_ahead)
        THEN "raise"
        ELSE "frame"

\* The files plot_analysis writes: the PNG, and the HTML page on request
Written(export_format) ==
    IF export_format = "both" THEN <<"png", "html">> ELSE <<"png">>

\* plot_analysis(coin, export_format).  An empty forecast is pd.DataFrame(),
\* which has no column: predictions['date'] raises KeyError, and the handler
\* logs and raises again, as it does for an exception of the projection.
PlotAnalysis(coin, export_format) ==
    /\ local.pc = "idle"
    /\ call' = [op |-> "plot_analysis", coin |-> coin, days_ahead |-> DefaultHorizon]
    /\ LET coin_data == CoinData(data, coin)
           clean == DropNa(WithAverages(SortByDate(coin_data)))
           forecast == ForecastKind(data, coin, DefaultHorizon)
       IN  IF Len(coin_data) = 0
           THEN /\ ret' = [kind |-> "no path", rows |-> <<>>]
                /\ local' = [pc |-> "idle", kind |-> "no data", clean |-> 0]
           ELSE IF forecast = "raise"
           THEN /\ ret' = Raised
                /\ local' = [pc |-> "idle", kind |-> "projection failed",
                             clean |-> Len(clean)]
           ELSE IF forecast = "empty"
           THEN /\ ret' = Raised
                /\ local' = [pc |-> "idle", kind |-> "KeyError", clean |-> Len(clean)]
           ELSE /\ ret' = [kind |-> "path", rows |-> Written(export_format)]
                /\ local' = [pc |-> "idle", kind |-> "plotted", clean |-> Len(clean)]
    /\ UNCHANGED <<csv, data, app, gui>>

-----------------------------------------------------------------------------

Init ==
    /\ csv \in Files
    /\ data = LoadData(csv)
    /\ call = [op |-> "none", coin |-> <<"">>, days_ahead |-> 0]
    /\ ret = NoResult
    /\ local = Idle
    /\ app = AppIdle(<<>>)
    /\ gui = GuiIdle

Horizons == {0, 1, MaxHorizon}

Next ==
    \/ \E coin \in Symbols : CalculateTechnicalIndicators(coin)
    \/ \E coin \in Symbols, days_ahead \in Horizons : PredictBegin(coin, days_ahead)
    \/ PredictStep
    \/ PredictReturn
    \/ \E coin \in Symbols, export_format \in {"png", "both"} :
            PlotAnalysis(coin, export_format)

Spec == Init /\ [][Next]_vars

\* The indicator engine alone, on the files long enough for every window
InitIndicators ==
    /\ csv \in IndicatorFiles
    /\ data = LoadData(csv)
    /\ call = [op |-> "none", coin |-> <<"">>, days_ahead |-> 0]
    /\ ret = NoResult
    /\ local = Idle
    /\ app = AppIdle(<<>>)
    /\ gui = GuiIdle

NextIndicators == \E coin \in Symbols : CalculateTechnicalIndicators(coin)

SpecIndicators == InitIndicators /\ [][NextIndicators]_vars

-----------------------------------------------------------------------------
(* CryptoDataFetcher and CryptoApp (crypto_data_fetcher.py, main.py) *)

NoDate == 0           \* start_date / end_date is None

\* The coins the user can select, and the letters of their names
CoinNames == {"BTC", "BTCB", "ETH"}

Chars(name) ==
    CASE name = "BTC"  -> <<"B", "T", "C">>
      [] name = "BTCB" -> <<"B", "T", "C", "B">>
      [] name = "ETH"  -> <<"E", "T", "H">>
      [] OTHER -> <<name>>

\* name.startswith(prefix)
StartsWith(name, prefix) ==
    LET a == Chars(name)
        b == Chars(prefix)
    IN  Len(b) <= Len(a) /\ SubSeq(a, 1, Len(b)) = b

\* f"{coin}/USDT"
SymbolOf(coin) == <<coin, "USDT">>

\* What the exchange holds for one market: daily candles of the days
\* first..last that follow pattern pat, served at most page at a time; the
\* request number fault (if any) fails with a network or exchange error.
Markets ==
    {[first |-> 1, last |-> 0, page |-> 1, fault |-> 0, pat |-> "up"],
     [first |-> 1, last |-> MaxDay, page |-> 2, fault |-> 2, pat |-> "down"],
     [first |-> 2, last |-> MaxDay, page |-> MaxDay, fault |-> 0, pat |-> "saw"]}

\* The date ranges of the application's fetches: none, or both ends given
DateRanges == {<<NoDate, NoDate>>, <<2, MaxDay>>}

StartDates == {NoDate, 2}
EndDates == {NoDate, MaxDay}

\* int(start_timestamp), end_timestamp
StartTimestamp(start_date) ==
    IF start_date # NoDate THEN start_date ELSE Today - DefaultSpan
EndTimestamp(end_date) == IF end_date # NoDate THEN end_date ELSE Today

\* exchange_class.fetch_ohlcv(symbol, timeframe="1d", since=since, limit=1000):
\* the days of the first candles at or after since
FetchOhlcv(market, since) ==
    LET from == Max2(market.first, since)
        n == Min2(Max2(market.last - from + 1, 0), market.page)
    IN  AsSeq([k \in 1..n |-> from + k - 1])

\* The loop "while since < end_timestamp" from request number calls + 1 on
RECURSIVE FetchPages(_, _, _, _, _)
FetchPages(market, since, end_timestamp, calls, collected) ==
    IF since >= end_timestamp THEN collected
    ELSE IF market.fault = calls + 1 THEN collected
    ELSE LET ohlcv == FetchOhlcv(market, since)
         IN  IF Len(ohlcv) = 0 THEN collected
             ELSE FetchPages(market, ohlcv[Len(ohlcv)] + 1, end_timestamp,
                             calls + 1, collected \o ohlcv)

\* The frame fetch_historical_data builds from the collected candles: rows of
\* the base coin, cut to the date range when one is given
CandleFrame(symbol, pat, days, start_date, end_date) ==
    LET df == AsSeq([k \in 1..Len(days) |-> GenRow(symbol[1], pat, days[k])])
    IN  SelectSeq(df, LAMBDA r :
            /\ start_date # NoDate => r.date >= start_date
            /\ end_date # NoDate => r.date <= end_date)

\* fetch_historical_data against a market whose failing request is known
FetchHistoricalData(symbol, market, start_date, end_date) ==
    CandleFrame(symbol, market.pat,
                FetchPages(market, StartTimestamp(start_date),
                           EndTimestamp(end_date), 0, <<>>),
                start_date, end_date)

\* fetch_all_data: the frames of the configured coins one after the other
RECURSIVE FetchAllFrom(_, _, _, _, _)
FetchAllFrom(coins, markets, start_date, end_date, k) ==
    IF k > Len(coins) THEN <<>>
    ELSE FetchHistoricalData(coins[k], markets[k], start_date, end_date)
            \o FetchAllFrom(coins, markets, start_date, end_date, k + 1)

FetchAllData(coins, markets, start_date, end_date) ==
    FetchAllFrom(coins, markets, start_date, end_date, 1)

RemoveNone(existing, coin) == existing

\* existing_data[~existing_data['coin'].str.startswith(coin)]
RemoveCoin(existing, coin) ==
    SelectSeq(existing, LAMBDA r : ~StartsWith(r.coin, coin))

\* CryptoApp.fetch_data with gui.current_coin = current_coin
FetchData(current_coin, start_date, end_date, markets) ==
    /\ app.pc = "idle"
    /\ app.fetches < MaxFetches
    /\ IF current_coin # AllCoins
       THEN LET historical_data ==
                    FetchHistoricalData(SymbolOf(current_coin), markets[1],
                                        start_date, end_date)
            IN  /\ csv' = IF Len(historical_data) > 0
                          THEN RemoveCoin(csv, current_coin) \o historical_data
                          ELSE csv
                /\ data' = IF Len(historical_data) > 0 THEN LoadData(csv') ELSE data
                /\ app' = [Entering("fetch_data") EXCEPT
                              !.outcome = IF Len(historical_data) = 0
                                          THEN "raise" ELSE "returned",
                              !.current_coin = current_coin,
                              !.selected_coin = current_coin,
                              !.fetched = historical_data,
                              !.fetches = @ + 1]
       ELSE LET historical_data ==
                    FetchAllData(app.coins, markets, start_date, end_date)
            IN  /\ csv' = IF Len(historical_data) > 0 THEN historical_data ELSE csv
                /\ data' = data
                /\ app' = [Entering("fetch_data") EXCEPT
                              !.outcome = IF Len(historical_data) = 0
                                          THEN "raise" ELSE "returned",
                              !.current_coin = current_coin,
                              !.fetched = historical_data,
                              !.fetches = @ + 1]
    /\ UNCHANGED <<call, ret, local, gui>>

\* CryptoAnalyzer.load_data, as analyze_data and the constructor call it
ReloadData ==
    /\ app.pc = "idle"
    /\ data' = LoadData(csv)
    /\ app' = [Entering("load_data") EXCEPT !.outcome = "returned"]
    /\ UNCHANGED <<csv, call, ret, local, gui>>

\* The parameters the analyzer's methods take besides self; a call with a
\* keyword outside them raises TypeError
CalcParams == {"coin"}
PredictParams == {"coin", "days_ahead"}
PlotParams == {"coin", "export_format"}
DateKeywords == {"start_date", "end_date"}

\* data['coin'] == coin_config['symbol']: the stored value is a base
\* currency, which has no '/', so only a symbol of one part can equal it
MatchesSymbol(value, symbol) == Len(symbol) = 1 /\ value = symbol[1]

\* The three calls analyze_data and _analyze_all_coins make for one coin,
\* in order, with the keywords they pass besides the coin
AnalysisCalls ==
    <<[method |-> "calculate_technical_indicators", params |-> CalcParams,
       keywords |-> DateKeywords],
      [method |-> "predict_future_prices", params |-> PredictParams,
       keywords |-> DateKeywords],
      [method |-> "plot_analysis", params |-> PlotParams,
       keywords |-> DateKeywords \cup {"export_format"}]>>

\* The methods entered from call k on: a call whose keywords the method
\* does not take raises TypeError before the method runs, and ends the try
RECURSIVE Entered(_, _)
Entered(calls, k) ==
    IF k > Len(calls) \/ ~(calls[k].keywords \subseteq calls[k].params) THEN <<>>
    ELSE <<calls[k].method>> \o Entered(calls, k + 1)

\* The body of the batch loop for one configured coin
AnalyzeCoin(df, symbol) ==
    IF Len(SelectSeq(df, LAMBDA r : MatchesSymbol(r.coin, symbol))) = 0
    THEN "skipped"
    ELSE IF Len(Entered(AnalysisCalls, 1)) < Len(AnalysisCalls) THEN "fault"
    ELSE IF ForecastKind(df, symbol, DefaultHorizon) # "frame" THEN "fault"
    ELSE "analysed"

\* CryptoApp.analyze_data with gui.current_coin = current_coin, a single coin
AnalyzeData(current_coin) ==
    /\ app.pc = "idle"
    /\ data' = LoadData(csv)
    /\ LET loaded == LoadData(csv)
           coin_data == SelectSeq(loaded, LAMBDA r : StartsWith(r.coin, current_coin))
           entered == Entered(AnalysisCalls, 1)
           result ==
               IF Len(coin_data) = 0
               THEN [stages |-> <<>>, fault |-> "no data", outcome |-> "raise"]
               ELSE IF Len(entered) < Len(AnalysisCalls)
               THEN [stages |-> entered, fault |-> "TypeError", outcome |-> "raise"]
               ELSE IF ForecastKind(loaded, SymbolOf(current_coin), DefaultHorizon)
                        # "frame"
               THEN [stages |-> entered, fault |-> "computation", outcome |-> "raise"]
               ELSE [stages |-> Append(entered, "display_result_image"),
                     fault |-> "none", outcome |-> "returned"]
       IN  app' = [Entering("analyze_data") EXCEPT
                              !.current_coin = current_coin,
                              !.selected_coin = current_coin,
                              !.stages = result.stages,
                              !.fault = result.fault,
                              !.outcome = result.outcome]
    /\ UNCHANGED <<csv, call, ret, local, gui>>

NextCoinBreak(i, n, outcome) == IF outcome = "fault" THEN n + 1 ELSE i + 1

\* The position of the loop over n coins after coin i: "except ...:
\* continue" and the end of the body both go on to the next coin
NextCoin(i, n, outcome) == i + 1

\* _analyze_all_coins up to the loop
AnalyzeAllBegin ==
    /\ app.pc = "idle"
    /\ IF Len(data) = 0
       THEN app' = [Entering("_analyze_all_coins") EXCEPT !.outcome = "raise"]
       ELSE app' = [Entering("_analyze_all_coins") EXCEPT !.pc = "batch", !.i = 1]
    /\ UNCHANGED <<csv, data, call, ret, local, gui>>

\* One pass of "for coin_config in self.data_fetcher.coins"
AnalyzeAllStep ==
    /\ app.pc = "batch"
    /\ app.i <= Len(app.coins)
    /\ LET coin == app.coins[app.i]
           outcome == AnalyzeCoin(data, coin)
       IN  app' = [app EXCEPT !.visited = Append(@, coin),
                              !.faults = IF outcome = "fault" THEN Append(@, coin) ELSE @,
                              !.analysed = IF outcome = "analysed"
                                           THEN Append(@, coin) ELSE @,
                              !.i = NextCoin(app.i, Len(app.coins), outcome)]
    /\ UNCHANGED <<csv, data, call, ret, local, gui>>

\* The loop is exhausted: _analyze_all_coins returns
AnalyzeAllEnd ==
    /\ app.pc = "batch"
    /\ app.i > Len(app.coins)
    /\ app' = [app EXCEPT !.pc = "idle", !.outcome = "returned"]
    /\ UNCHANGED <<csv, data, call, ret, local, gui>>

\* The coins fetch_top_coins may leave in self.coins
Configs ==
    {<<>>,
     <<<<"BTC", "USDT">>, <<"ETH", "USDT">>>>,
     <<<<"BTC", "USDT">>, <<"BTCB", "USDT">>>>,
     <<<<"BTC">>, <<"ETH">>>>}

\* The file an earlier run left: none (the analyzer then creates an empty
\* one) or the one its fetch of all configured coins wrote
StoredFiles(coins) ==
    {<<>>,
     FetchAllData(coins,
                  [k \in 1..Len(coins) |->
                    [first |-> 1, last |-> MaxDay, page |-> MaxDay, fault |-> 0,
                     pat |-> "down"]],
                  NoDate, NoDate)}

\* The application after construction
InitApp ==
    /\ app \in {AppIdle(coins) : coins \in Configs}
    /\ csv \in StoredFiles(app.coins)
    /\ data = LoadData(csv)
    /\ call = [op |-> "none", coin |-> <<"">>, days_ahead |-> 0]
    /\ ret = NoResult
    /\ local = Idle
    /\ gui = GuiIdle

NextApp ==
    \/ \E current_coin \in CoinNames, market \in Markets, range \in DateRanges :
            FetchData(current_coin, range[1], range[2], <<market>>)
    \/ \E markets \in [1..Len(app.coins) -> Markets], range \in DateRanges :
            FetchData(AllCoins, range[1], range[2], markets)
    \/ ReloadData
    \/ \E current_coin \in CoinNames : AnalyzeData(current_coin)
    \/ AnalyzeAllBegin
    \/ AnalyzeAllStep
    \/ AnalyzeAllEnd

SpecApp == InitApp /\ [][NextApp]_vars

-----------------------------------------------------------------------------
(* Properties *)

PredictDone == call.op = "predict_future_prices" /\ local.pc = "idle"
CalcDone == call.op = "calculate_technical_indicators" /\ local.pc = "idle"

\* The rows of the loaded series that belong to the requested instrument
Requested == SelectSeq(data, LAMBDA r : r.coin = call.coin[1])

\* The last observed timestamp of the requested instrument
LastObserved ==
    LET dates == {Requested[j].date : j \in 1..Len(Requested)}
    IN  CHOOSE d \in dates : \A e \in dates : e <= d

\* The closes of the requested instrument in date order, by counting for
\* each row the rows that are not later
ClosesByDate ==
    LET rows == Requested
        m == Len(rows)
        dates == AsSeq([j \in 1..m |-> rows[j].date])
        rank == AsSeq([j \in 1..m |->
                    Cardinality({k \in 1..m : dates[k] <= dates[j]})])
    IN  AsSeq([r \in 1..m |-> rows[CHOOSE j \in 1..m : rank[j] = r].close])

RECURSIVE Total(_, _, _)
Total(x, lo, hi) ==
    IF lo > hi THEN 0
    ELSE IF lo = hi THEN x[lo]
    ELSE Total(x, lo, (lo + hi) \div 2) + Total(x, ((lo + hi) \div 2) + 1, hi)

C2_ForecastDates ==
    (PredictDone /\ ret.kind = "frame")
        => \A k \in 1..Len(ret.rows) : ret.rows[k].date = LastObserved + k

C2_Witness ==
    /\ PredictDone /\ ret.kind = "frame" /\ Len(ret.rows) >= 2
    /\ ret.rows[1].date = LastObserved + 1
    /\ ret.rows[2].date = ret.rows[1].date + 1

\* C3: with no row of the requested instrument in the loaded series, both
\* calculate_technical_indicators and predict_future_prices return an empty
\* result and do not raise.
C3_NoRowsEmpty ==
    ((PredictDone \/ CalcDone) /\ Len(Requested) = 0) => ret = Empty

C3_Witness ==
    /\ PredictDone /\ Len(data) > 0 /\ Len(Requested) = 0
    /\ ret = Empty

\* C4: with fewer than L = 60 clean rows predict_future_prices returns an
\* empty forecast, and has neither built windows nor fitted a model.
C4_Insufficient ==
    (PredictDone /\ local.clean < MinRows)
        => (ret = Empty /\ ~local.prepared /\ ~local.fitted)

C4_Witness ==
    /\ PredictDone /\ local.clean = MinRows - 1
    /\ ret = Empty /\ ~local.prepared /\ ~local.fitted

CalcFrame == CalcDone /\ ret.kind = "frame"

\* C5 as stated: on every row whose window is filled and whose trailing
\* 14-period mean loss is zero, the oscillator is exactly 100, also when the
\* mean gain is zero as well (flat closes); it is never undefined there.
C5_Saturates ==
    CalcFrame =>
        \A i \in RSIWindow..Len(ret.rows) :
            NumEq(local.loss[i], Num(0)) => NumEq(ret.rows[i].RSI, Num(100))

\* C6: every defined value of the relative-strength oscillator lies in the
\* closed interval [0, 100].
C6_Range ==
    CalcFrame =>
        \A i \in 1..Len(ret.rows) :
            Defined(ret.rows[i].RSI)
                => (NumLe(Num(0), ret.rows[i].RSI) /\ NumLe(ret.rows[i].RSI, Num(100)))

C6_Witness ==
    /\ CalcFrame
    /\ \E i \in 1..Len(ret.rows) : NumEq(ret.rows[i].RSI, Num(50))
    /\ \E i \in 1..Len(ret.rows) : NumEq(ret.rows[i].RSI, Num(100))

\* A rolling field of window w is undefined on the first w - 1 rows and
\* defined on every later row
RollingShape(field(_), w) ==
    \A i \in 1..Len(ret.rows) : Defined(field(ret.rows[i])) <=> i >= w

\* C7 as stated: SMA_20, SMA_50, SMA_200, RSI (window 14) and the three
\* band fields (window 20) are undefined on the first W - 1 rows and defined
\* on every later row; on a series shorter than W they are undefined on
\* every row.
C7_RollingDefinedness ==
    CalcFrame =>
        /\ RollingShape(LAMBDA r : r.SMA_20, SMAShort)
        /\ RollingShape(LAMBDA r : r.SMA_50, SMAMid)
        /\ RollingShape(LAMBDA r : r.SMA_200, SMALong)
        /\ RollingShape(LAMBDA r : r.RSI, RSIWindow)
        /\ RollingShape(LAMBDA r : r.BB_middle, BBWindow)
        /\ RollingShape(LAMBDA r : r.BB_upper, BBWindow)
        /\ RollingShape(LAMBDA r : r.BB_lower, BBWindow)

\* The mean of rows i-w+1 .. i of a column
MeanOfWindow(x, i, w) == Rat(Total(x, i - w + 1, i), w)

\* C8: for w in {20, 50, 200} and every row i >= w - 1 (0-based) of the
\* instrument's date-sorted series, the SMA at row i is the arithmetic mean
\* of close over rows [i-w+1, i] of that instrument only.
C8_MovingAverages ==
    CalcFrame =>
        LET closes == ClosesByDate
        IN  /\ Len(ret.rows) = Len(closes)
            /\ \A i \in 1..Len(ret.rows) :
                /\ ret.rows[i].close = closes[i]
                /\ i >= SMAShort
                    => NumEq(ret.rows[i].SMA_20, MeanOfWindow(closes, i, SMAShort))
                /\ i >= SMAMid
                    => NumEq(ret.rows[i].SMA_50, MeanOfWindow(closes, i, SMAMid))
                /\ i >= SMALong
                    => NumEq(ret.rows[i].SMA_200, MeanOfWindow(closes, i, SMALong))

C8_Witness ==
    /\ CalcFrame
    /\ Len(Requested) < Len(data)
    /\ Len(ret.rows) > SMALong
    /\ NumEq(ret.rows[Len(ret.rows)].SMA_200,
             MeanOfWindow(ClosesByDate, Len(ret.rows), SMALong))
    /\ ~NumEq(ret.rows[Len(ret.rows)].SMA_200, ret.rows[Len(ret.rows)].SMA_20)

\* e is the unadjusted recursion over x: the first observation, then
\* prev * (1 - a) + x * a with a = 2 / (span + 1), in fixed point
FollowsRecursion(e, x, span) ==
    /\ Len(e) = Len(x)
    /\ \A i \in 1..Len(x) :
        e[i] = IF i = 1 THEN x[1]
               ELSE (e[i - 1] * (span - 1) + x[i] * 2) \div (span + 1)

\* C9: MACD is EMA12(close) - EMA26(close) and the signal line is EMA9 of
\* MACD, each EMA being the unadjusted recursion seeded with the first
\* observation; both are defined on every row, and MACD is 0 on the first.
C9_Macd ==
    CalcFrame =>
        LET close == AsSeq([i \in 1..Len(ret.rows) |-> ret.rows[i].close * FixedScale])
            macd == AsSeq([i \in 1..Len(ret.rows) |-> ret.rows[i].MACD.n])
            signal == AsSeq([i \in 1..Len(ret.rows) |-> ret.rows[i].Signal_Line.n])
        IN  /\ FollowsRecursion(local.exp1, close, 12)
            /\ FollowsRecursion(local.exp2, close, 26)
            /\ FollowsRecursion(signal, macd, 9)
            /\ \A i \in 1..Len(ret.rows) :
                /\ IsNum(ret.rows[i].MACD) /\ ret.rows[i].MACD.d = FixedScale
                /\ IsNum(ret.rows[i].Signal_Line) /\ ret.rows[i].Signal_Line.d = FixedScale
                /\ macd[i] = local.exp1[i] - local.exp2[i]
            /\ macd[1] = 0

C9_Witness ==
    /\ CalcFrame
    /\ Len(ret.rows) >= 3
    /\ ret.rows[1].MACD.n = 0
    /\ ret.rows[3].MACD.n # 0
    /\ ret.rows[3].Signal_Line.n # ret.rows[3].MACD.n

\* C10 as stated: prepare_prediction_data on a clean table of M rows with
\* lookback L builds exactly M - L samples; sample i - L is the row-major
\* flattening of rows [i-L, i) over all feature columns and its label is
\* the close of row i.
C10_Windows ==
    (call.op = "predict_future_prices" /\ local.prepared) =>
        /\ local.kind # "prepare failed"
        /\ Len(local.model.X) = local.clean - Lookback
        /\ Len(local.model.y) = local.clean - Lookback
        /\ \A j \in 1..Len(local.model.X) :
            /\ Len(local.model.X[j]) = Lookback * NFeatures
            /\ \A r \in 1..Lookback, c \in 1..NFeatures :
                local.model.X[j][(r - 1) * NFeatures + c] = local.feature_data[j + r - 1][c]
            /\ local.model.y[j] = local.feature_data[j + Lookback][CloseIdx]

InLoop == call.op = "predict_future_prices" /\ local.pc = "loop"

\* Row r (1-based) of the current window
WindowRow(r) ==
    SubSeq(local.current_sequence, (r - 1) * NFeatures + 1, r * NFeatures)

\* The mean of the last n entries of a list of predictions
MeanOfLast(x, n) == Rat(SumRange(x, Len(x) - n + 1, Len(x)), n)

\* C11 as stated: at every forecast step the synthetic row's close is the
\* newest prediction, and its SMA_20 and SMA_50 features are the mean of the
\* last min(w, count) predictions produced so far (for count < w the mean of
\* all count predictions).
C11_FedBackAverages ==
    (InLoop /\ local.step >= 2) =>
        LET count == Len(local.predictions) - 1
            sofar == SubSeq(local.predictions, 1, count)
            row == WindowRow(Lookback)
        IN  /\ NumEq(row[CloseIdx], sofar[count])
            /\ NumEq(row[SMA20Idx], MeanOfLast(sofar, Min2(SMAShort, count)))
            /\ NumEq(row[SMA50Idx], MeanOfLast(sofar, Min2(SMAMid, count)))

\* C12: the current window always holds exactly L feature rows; after k
\* steps it is the last L - k rows of the clean feature table followed by
\* the k synthetic rows in the order they were made (the j-th carries the
\* j-th prediction as close and zero as open).
C12_Window ==
    InLoop =>
        LET k == local.step - 1
            fd == local.feature_data
        IN  /\ Len(local.current_sequence) = Lookback * NFeatures
            /\ \A r \in 1..(Lookback - k) :
                WindowRow(r) = fd[Len(fd) - Lookback + k + r]
            /\ \A j \in 1..k :
                /\ WindowRow(Lookback - k + j)[CloseIdx] = local.predictions[j]
                /\ WindowRow(Lookback - k + j)[1] = Num(0)

C12_Witness ==
    /\ InLoop /\ local.step = MaxHorizon
    /\ local.predictions[1] # local.predictions[2]
    /\ WindowRow(Lookback - 1)[CloseIdx] = local.predictions[1]
    /\ WindowRow(Lookback)[CloseIdx] = local.predictions[2]
    /\ WindowRow(1) = local.feature_data[Len(local.feature_data) - Lookback + MaxHorizon]

\* The predictions of lines 230-252 as a function of the fitted model, the
\* window and the predictions made so far
RECURSIVE ForecastFrom(_, _, _, _)
ForecastFrom(model, window, predictions, days_ahead) ==
    IF LoopDone(Len(predictions), days_ahead) THEN predictions
    ELSE LET next == Shift(window, NewRow(predictions, predictions[Len(predictions)]))
         IN  ForecastFrom(model, next,
                          AppendPrediction(predictions, ModelPredict(model, next)),
                          days_ahead)

\* What predict_future_prices returns, as a function of the loaded series,
\* the instrument and the horizon alone
ForecastOf(df, coin, days_ahead) ==
    LET coin_data == CoinData(df, coin)
        clean == DropNa(WithAverages(SortByDate(coin_data)))
        feature_data == FeatureData(clean)
        prep == PreparePredictionData(feature_data, Lookback)
        window == Flatten(feature_data, Len(feature_data) - Lookback + 1,
                          Lookback, NFeatures)
        model == Fit(prep.X, prep.y)
        predictions == ForecastFrom(model, window, <<ModelPredict(model, window)>>,
                                    days_ahead)
        future_dates == FutureDates(clean[Len(clean)].date, days_ahead)
    IN  IF Len(coin_data) = 0 \/ Insufficient(clean) THEN Empty
        ELSE IF prep.kind = "raise" THEN Raised
        ELSE IF Len(prep.X) = 0 THEN Empty
        ELSE IF Len(future_dates) # Len(predictions) THEN Raised
        ELSE Frame(AsSeq([k \in 1..Len(predictions) |->
                        [date |-> future_dates[k], predicted_price |-> predictions[k]]]))

RawColumns == {"date", "coin", "open", "high", "low", "close", "volume", "exchange"}

\* C14: no step of calculate_technical_indicators or predict_future_prices
\* changes the loaded raw series or the stored file: the derived columns go
\* to the per-call copy and the raw series keeps its rows and its columns.
C14_Frame == [][csv' = csv /\ data' = data]_vars

C14_Witness ==
    /\ CalcFrame
    /\ \E i \in 1..Len(ret.rows) : Defined(ret.rows[i].SMA_20)
    /\ Len(ret.rows) < Len(data)
    /\ \A i \in 1..Len(data) : DOMAIN data[i] = RawColumns
    /\ data = LoadData(csv)

\* A computation inside predict_future_prices failed: no window could be
\* built (IndexError) or the result columns differ in length (ValueError)
PredictFailed ==
    /\ PredictDone
    /\ \/ local.kind = "prepare failed"
       \/ /\ local.kind = "forecast"
          /\ Len(local.future_dates) # Len(local.predictions)

RisingScenario ==
    /\ Len(Requested) = ScenarioRows
    /\ \A i \in 2..Len(Requested) : Requested[i].close > Requested[i - 1].close

\* C17 as stated: on 25 rows of strictly increasing closes a projection
\* with horizon N >= 1 trains without error and returns N forecast values; it
\* does not report insufficient data.
C17_ShortSeriesForecast ==
    (PredictDone /\ RisingScenario /\ call.days_ahead >= 1)
        => (ret.kind = "frame" /\ Len(ret.rows) = call.days_ahead)

\* C18: each step of the forecast loop appends exactly one prediction and
\* leaves the earlier ones as they are, and the returned forecast lists the
\* predictions in the order they were made.
C18_AppendOnly ==
    [][/\ (local.pc = "loop" /\ local'.pc = "loop")
            => /\ Len(local'.predictions) = Len(local.predictions) + 1
               /\ SubSeq(local'.predictions, 1, Len(local.predictions))
                    = local.predictions
       /\ (local.pc = "loop" /\ local'.pc = "idle" /\ ret'.kind = "frame")
            => /\ local'.predictions = local.predictions
               /\ Len(ret'.rows) = Len(local.predictions)
               /\ \A k \in 1..Len(ret'.rows) :
                    ret'.rows[k].predicted_price = local.predictions[k]]_vars

C18_Witness ==
    /\ PredictDone /\ ret.kind = "frame" /\ Len(local.predictions) = MaxHorizon
    /\ \A k \in 1..MaxHorizon : ret.rows[k].predicted_price = local.predictions[k]
    /\ local.predictions[2] # local.predictions[1]

\* C20 as stated: with exactly L = 60 clean rows predict_future_prices
\* returns an empty forecast through its "No valid data after preparation"
\* guard and does not raise.
C20_NoWindowEmpty ==
    (PredictDone /\ local.clean = Lookback)
        => (ret = Empty /\ local.kind = "no valid data")

BatchDone == app.op = "_analyze_all_coins" /\ app.pc = "idle"

\* C15: a fault while one configured coin is processed does not end the
\* batch: the loop has gone through every coin before its position whatever
\* faults were caught, and a batch started on a non-empty series returns
\* after going through every configured coin.
C15_BatchContinues ==
    /\ app.pc = "batch" => app.visited = SubSeq(app.coins, 1, app.i - 1)
    /\ (BatchDone /\ Len(data) > 0)
        => (app.outcome = "returned" /\ app.visited = app.coins)

C15_Witness ==
    /\ BatchDone /\ app.outcome = "returned"
    /\ Len(app.coins) >= 2
    /\ app.faults # <<>> /\ app.faults[1] = app.coins[1]
    /\ app.visited = app.coins

\* C19: in the series load_data leaves, the rows of one instrument have
\* strictly ascending timestamps (so no two of them share one), whatever
\* fetch operations wrote the stored file.
C19_SortedUnique ==
    \A i \in 1..Len(data), j \in 1..Len(data) :
        (i < j /\ data[i].coin = data[j].coin) => data[i].date < data[j].date

C19_Witness ==
    /\ app.fetches = MaxFetches
    /\ data = LoadData(csv) /\ data # csv
    /\ \E i \in 1..Len(data), j \in 1..Len(data) :
        i + 1 < j /\ data[i].coin = data[j].coin /\ data[i + 1].coin # data[i].coin
    /\ C19_SortedUnique

\* C29 as stated: with horizon N = 0 and more than L clean rows
\* predict_future_prices returns a forecast of zero points and does not
\* raise; as many predictions are made as forecast timestamps.
C29_ZeroHorizon ==
    (PredictDone /\ call.days_ahead = 0 /\ local.clean > Lookback)
        => /\ ret.kind = "frame" /\ Len(ret.rows) = 0
           /\ Len(local.predictions) = Len(local.future_dates)

PlotDone == call.op = "plot_analysis" /\ local.pc = "idle"

\* C21 as stated: for an instrument that has rows but fewer clean rows than
\* the projection needs, plot_analysis completes and returns the plot path;
\* it does not raise.
C21_PlotWithoutForecast ==
    (PlotDone /\ Len(Requested) > 0 /\ local.clean < MinRows) => ret.kind = "path"

AnalyzeDone == app.op = "analyze_data" /\ app.pc = "idle"

\* Rows of the loaded series whose coin starts with the selected coin
SelectedRows == SelectSeq(data, LAMBDA r : StartsWith(r.coin, app.selected_coin))

\* C22 as stated: analyze_data for a single selected coin whose rows are in
\* the loaded series runs indicator calculation, projection and plotting
\* and then displays the image; it raises only when a computation fails.
C22_SingleAnalysis ==
    (AnalyzeDone /\ Len(SelectedRows) > 0)
        => \/ /\ app.outcome = "returned"
              /\ app.stages = <<"calculate_technical_indicators",
                                "predict_future_prices", "plot_analysis",
                                "display_result_image">>
           \/ app.outcome = "raise" /\ app.fault = "computation"

\* C23 as stated: after _analyze_all_coins, every configured coin that has
\* rows in the loaded series under its base currency has had indicator
\* calculation, projection and plotting invoked.
C23_BatchAnalysesAll ==
    (BatchDone /\ app.outcome = "returned")
        => \A k \in 1..Len(app.coins) :
                (\E i \in 1..Len(data) : data[i].coin = BaseCoin(app.coins[k]))
                    => \E j \in 1..Len(app.analysed) : app.analysed[j] = app.coins[k]

\* C28 as stated: after a fetch_data that saved data, the analyzer's loaded
\* series is the stored series as load_data reads it, on the single-coin
\* path and on the ALL COINS path.
C28_LoadedAfterFetch ==
    (app.op = "fetch_data" /\ app.outcome = "returned") => data = LoadData(csv)

\* C24 as stated: a single-coin fetch_data for coin C that saves data leaves
\* as C's stored rows exactly the rows it fetched, and leaves every stored
\* row of every other coin in place.
C24_ReplacesExactly ==
    [][(/\ app'.op = "fetch_data" /\ app'.fetches = app.fetches + 1
        /\ app'.current_coin # AllCoins /\ Len(app'.fetched) > 0)
            => /\ SelectSeq(csv', LAMBDA r : r.coin = app'.current_coin) = app'.fetched
               /\ SelectSeq(csv', LAMBDA r : r.coin # app'.current_coin)
                    = SelectSeq(csv, LAMBDA r : r.coin # app'.current_coin)]_vars

\* ---------------------------------------------------------------------
\* fetch_historical_data request by request: each request either returns
\* the next candles of the market or fails with one of the two errors the
\* loop catches.

FetchSymbols == {SymbolOf("BTC"), SymbolOf("ETH")}

\* The markets of the application's runs and one served a candle at a time
FetchMarkets ==
    Markets \cup {[first |-> 1, last |-> MaxDay, page |-> 1, fault |-> 0,
                   pat |-> "up"]}

RequestErrors == {"NetworkError", "ExchangeError"}

RequestFailedRaises(error) ==
    /\ local' = [local EXCEPT !.pc = "idle", !.stop = error]
    /\ ret' = Raised

\* except ccxt.NetworkError / except ccxt.ExchangeError: log and break
RequestFailed(error) ==
    /\ local' = [local EXCEPT !.pc = "collected", !.stop = error]
    /\ UNCHANGED ret

\* Entry of fetch_historical_data up to the loop
FetchBegin(symbol, market, start_date, end_date) ==
    /\ local.pc = "idle"
    /\ call' = [op |-> "fetch_historical_data", symbol |-> symbol,
                market |-> market, start_date |-> start_date,
                end_date |-> end_date]
    /\ local' = [pc |-> "paging", since |-> StartTimestamp(start_date),
                 data |-> <<>>, pages |-> 0, stop |-> "none"]
    /\ ret' = NoResult
    /\ UNCHANGED <<csv, data, app, gui>>

\* One pass of "while since < end_timestamp"
FetchRequest ==
    /\ local.pc = "paging"
    /\ local.since < EndTimestamp(call.end_date)
    /\ \E outcome \in {"candles"} \cup RequestErrors :
          IF outcome = "candles"
          THEN LET ohlcv == FetchOhlcv(call.market, local.since)
               IN  /\ local' = IF Len(ohlcv) = 0
                               THEN [local EXCEPT !.pc = "collected",
                                                  !.stop = "empty page"]
                               ELSE [local EXCEPT
                                        !.data = @ \o ohlcv,
                                        !.since = ohlcv[Len(ohlcv)] + 1,
                                        !.pages = @ + 1]
                   /\ UNCHANGED ret
          ELSE RequestFailed(outcome)
    /\ UNCHANGED <<csv, data, call, app, gui>>

\* After the loop: the frame of the collected candles, or pd.DataFrame()
FetchReturn ==
    /\ \/ local.pc = "collected"
       \/ local.pc = "paging" /\ local.since >= EndTimestamp(call.end_date)
    /\ ret' = IF Len(local.data) > 0
              THEN Frame(CandleFrame(call.symbol, call.market.pat, local.data,
                                     call.start_date, call.end_date))
              ELSE Empty
    /\ local' = [local EXCEPT !.pc = "idle"]
    /\ UNCHANGED <<csv, data, call, app, gui>>

InitFetcher ==
    /\ csv = <<>>
    /\ data = LoadData(csv)
    /\ call = [op |-> "none", coin |-> <<"">>, days_ahead |-> 0]
    /\ ret = NoResult
    /\ local = Idle
    /\ app = AppIdle(<<>>)
    /\ gui = GuiIdle

NextFetcher ==
    \/ \E symbol \in FetchSymbols, market \in FetchMarkets,
          start_date \in StartDates, end_date \in EndDates :
            FetchBegin(symbol, market, start_date, end_date)
    \/ FetchRequest
    \/ FetchReturn

SpecFetcher == InitFetcher /\ [][NextFetcher]_vars

FetchDone == call.op = "fetch_historical_data" /\ local.pc = "idle"

\* The days of the first pages full pages of a market from day since on
DaysOfPages(market, since, pages) ==
    LET from == Max2(market.first, since)
        to == Min2(market.last, from + pages * market.page - 1)
    IN  AsSeq([k \in 1..Max2(to - from + 1, 0) |-> from + k - 1])

\* C25: fetch_historical_data never raises; when a request fails with a
\* network or exchange error, or a page is empty, paging stops, and what it
\* returns are the candles of the pages collected before (within the date
\* range asked for), none if no page was collected.
C25_FinishedSequence ==
    /\ (call.op = "fetch_historical_data" /\ local.pc = "paging")
            => local.stop = "none"
    /\ FetchDone =>
        /\ ret.kind \in {"frame", "empty"}
        /\ ret.rows = CandleFrame(call.symbol, call.market.pat,
                                  DaysOfPages(call.market,
                                              StartTimestamp(call.start_date),
                                              local.pages),
                                  call.start_date, call.end_date)

C25_Witness ==
    /\ FetchDone
    /\ local.stop \in RequestErrors
    /\ local.pages >= 1
    /\ Len(ret.rows) >= 1

\* ---------------------------------------------------------------------
\* The window: the two buttons, their worker threads and the callbacks the
\* workers hand to the main loop with root.after.

\* The entries of the coin dropdown
GuiCoins == {AllCoins, "BTC", "ETH"}

Kinds == {"fetch", "analyze"}

FinallyNothing(after, kind) == after

\* finally: self.root.after(0, lambda: <button>.configure(state="normal"))
Finally(after, kind) == Append(after, [widget |-> "button", kind |-> kind])

\* The user picks another entry of the dropdown
SelectCoin(coin) ==
    /\ coin # gui.selected_coin
    /\ gui' = [gui EXCEPT !.selected_coin = coin]
    /\ UNCHANGED <<csv, data, call, ret, local, app>>

\* A click on an enabled button: the handler disables it and starts the
\* worker with the coin selected now; when Thread.start() raises, the
\* handler reports it and enables the button again
HandleClick(kind, started) ==
    /\ gui.button[kind] = "normal"
    /\ gui' = IF started
              THEN [gui EXCEPT
                      !.status_label = "working",
                      !.button[kind] = "disabled",
                      !.workers[kind] =
                          Append(@, [pc |-> "publish",
                                     selected_coin |-> gui.selected_coin])]
              ELSE [gui EXCEPT !.status_label = "error",
                               !.button[kind] = "normal"]
    /\ UNCHANGED <<csv, data, call, ret, local, app>>

HandleFetchData(started) == HandleClick("fetch", started)
HandleAnalyzeData(started) == HandleClick("analyze", started)

\* Worker k of a kind: self.current_coin = selected_coin
ThreadPublish(kind, k) ==
    /\ k \in 1..Len(gui.workers[kind])
    /\ gui.workers[kind][k].pc = "publish"
    /\ gui' = [gui EXCEPT !.current_coin = gui.workers[kind][k].selected_coin,
                          !.workers[kind][k].pc = "callback"]
    /\ UNCHANGED <<csv, data, call, ret, local, app>>

\* Worker k of a kind runs its callback, which takes the coin to work on
\* from gui.current_coin; the callback returns or raises, and a raise is
\* reported through the main loop
ThreadCallback(kind, k, outcome) ==
    /\ k \in 1..Len(gui.workers[kind])
    /\ gui.workers[kind][k].pc = "callback"
    /\ gui' = [gui EXCEPT
                 !.operated[kind] =
                     [clicked |-> gui.workers[kind][k].selected_coin,
                      read |-> gui.current_coin],
                 !.status_label = IF outcome = "returned" THEN "completed" ELSE @,
                 !.after = IF outcome = "raise"
                           THEN Append(@, [widget |-> "status_label", kind |-> kind])
                           ELSE @,
                 !.workers[kind][k].pc = "finally"]
    /\ UNCHANGED <<csv, data, call, ret, local, app>>

\* Worker k of a kind leaves through its finally clause and ends
ThreadFinally(kind, k) ==
    /\ k \in 1..Len(gui.workers[kind])
    /\ gui.workers[kind][k].pc = "finally"
    /\ gui' = [gui EXCEPT
                 !.after = Finally(@, kind),
                 !.workers[kind] =
                     SubSeq(@, 1, k - 1) \o SubSeq(@, k + 1, Len(@))]
    /\ UNCHANGED <<csv, data, call, ret, local, app>>

\* A step of one worker thread of a kind
Thread(kind) ==
    \E k \in 1..Len(gui.workers[kind]) :
        \/ ThreadPublish(kind, k)
        \/ \E outcome \in {"returned", "raise"} : ThreadCallback(kind, k, outcome)
        \/ ThreadFinally(kind, k)

FetchDataThread == Thread("fetch")
AnalyzeDataThread == Thread("analyze")

\* root.mainloop() runs the oldest callback scheduled with root.after
MainLoop ==
    /\ Len(gui.after) > 0
    /\ LET callback == Head(gui.after)
       IN  gui' = IF callback.widget = "button"
                  THEN [gui EXCEPT !.after = Tail(@),
                                   !.button[callback.kind] = "normal"]
                  ELSE [gui EXCEPT !.after = Tail(@),
                                   !.status_label = "error"]
    /\ UNCHANGED <<csv, data, call, ret, local, app>>

InitGui ==
    /\ csv = <<>>
    /\ data = LoadData(csv)
    /\ call = [op |-> "none", coin |-> <<"">>, days_ahead |-> 0]
    /\ ret = NoResult
    /\ local = Idle
    /\ app = AppIdle(<<>>)
    /\ gui = GuiIdle

NextGui ==
    \/ \E coin \in GuiCoins : SelectCoin(coin)
    \/ \E started \in BOOLEAN : HandleFetchData(started)
    \/ \E started \in BOOLEAN : HandleAnalyzeData(started)
    \/ FetchDataThread
    \/ AnalyzeDataThread
    \/ MainLoop

SpecGui == InitGui /\ [][NextGui]_vars

\* The worker threads are scheduled by the operating system and the main
\* loop runs every callback handed to it: none of them waits forever
SpecGuiFair ==
    /\ SpecGui
    /\ WF_vars(FetchDataThread)
    /\ WF_vars(AnalyzeDataThread)
    /\ WF_vars(MainLoop)

\* C27 as stated: the coin a fetch or analyze callback works on is the
\* coin that was selected when its button was clicked.
C27_CallbackCoin ==
    \A kind \in Kinds : gui.operated[kind].read = gui.operated[kind].clicked

\* C26: at most one worker of each button is active at a time, the button
\* is disabled while its worker is active, and a disabled button is
\* eventually enabled again, whether the callback returned or raised.
C26_ButtonsReenabled ==
    /\ [](\A kind \in Kinds :
            /\ Len(gui.workers[kind]) <= 1
            /\ Len(gui.workers[kind]) = 1 => gui.button[kind] = "disabled")
    /\ \A kind \in Kinds :
            (gui.button[kind] = "disabled") ~> (gui.button[kind] = "normal")

C26_Witness ==
    /\ gui.button["fetch"] = "normal"
    /\ gui.button["analyze"] = "disabled"
    /\ gui.status_label = "error"
    /\ gui.operated["fetch"].clicked # "None"
    /\ Len(gui.workers["fetch"]) = 0
    /\ Len(gui.workers["analyze"]) = 1

\* ---------------------------------------------------------------------
\* Projections longer than the window: after Lookback passes every row of
\* the window is a synthetic one.

LongHorizons == {LongHorizon - 1, LongHorizon}

\* Stored files that leave enough clean rows for a forecast
ForecastFiles ==
    {GenCsv(pat, MinRows + SMAMid + MaxExtra, OtherRows) : pat \in LongPatterns}

InitLong ==
    /\ csv \in ForecastFiles
    /\ data = LoadData(csv)
    /\ call = [op |-> "none", coin |-> <<"">>, days_ahead |-> 0]
    /\ ret = NoResult
    /\ local = Idle
    /\ app = AppIdle(<<>>)
    /\ gui = GuiIdle

NextLong ==
    \/ \E coin \in Symbols, days_ahead \in LongHorizons :
            PredictBegin(coin, days_ahead)
    \/ PredictStep
    \/ PredictReturn

SpecLong == InitLong /\ [][NextLong]_vars

\* C30: every synthetic row in the window has 0 as open, high, low and
\* volume, the prediction it was made from as close, and that prediction or
\* the mean of the last predictions as SMA_20 and SMA_50; once Lookback
\* passes are made, no row of the window has an open, high, low or volume
\* other than 0.
C30_SyntheticRows ==
    InLoop =>
        LET k == local.step - 1
            s == Min2(k, Lookback)
        IN  /\ \A j \in 1..s :
                LET row == WindowRow(Lookback - s + j)
                    p == k - s + j
                    sofar == SubSeq(local.predictions, 1, p)
                IN  /\ \A f \in UnsetFeatures : row[f] = Num(0)
                    /\ row[CloseIdx] = local.predictions[p]
                    /\ NumEq(row[SMA20Idx],
                             IF p >= SMAShort THEN MeanOfLast(sofar, SMAShort)
                                              ELSE local.predictions[p])
                    /\ NumEq(row[SMA50Idx],
                             IF p >= SMAMid THEN MeanOfLast(sofar, SMAMid)
                                            ELSE local.predictions[p])
            /\ k >= Lookback =>
                \A r \in 1..Lookback :
                    \A f \in UnsetFeatures : WindowRow(r)[f] = Num(0)

C30_Witness ==
    /\ InLoop
    /\ local.step - 1 > Lookback
    /\ WindowRow(1)[CloseIdx] = local.predictions[local.step - Lookback]
    /\ local.feature_data[Len(local.feature_data)][1] # Num(0)

====
